---- MODULE Spec2Model ----
(***************************************************************************)
(* Model of the off-chain PropAMM signal engine                            *)
(* (offchain/prediction/signal_engine.py) and of the update cycle that     *)
(* drives it (offchain/update_bot.py, main).                               *)
(*                                                                         *)
(* Numbers.  Prices, the tolerance and the widen factor are Python floats. *)
(* The model keeps them as exact rationals <<numerator, denominator>> and  *)
(* draws them from values a binary float holds exactly (current prices are *)
(* powers of two, the widen factor is a multiple of 1/2), so the float     *)
(* quotient, product and comparison of the source are the exact ones of    *)
(* the model.  The default tolerance 0.001 is not a binary fraction, but   *)
(* no deviation of the model lies within 2^-10 of it, so the comparison    *)
(* against it is exact as well.  Volatilities are counted in hundredths.   *)
(* Multipliers, targets and concentrations are scaled down from their      *)
(* 18-decimal values; FEE_BASE and spread_step keep their real values.     *)
(*                                                                         *)
(* Specifications.  Spec: one build_plan call on an engine of any          *)
(* configuration.  BotSpec: the programs that encode a plan, update_bot    *)
(* (with and without --dry-run), demo_unified, and a caller of the         *)
(* encoders with a plan of its own.  ThreadSpec: two threads calling       *)
(* build_plan on one engine, interleaved statement by statement.           *)
(***************************************************************************)
EXTENDS Integers, Sequences, FiniteSets, TLC

VARIABLES pc, engine, predicted_price, current_price, realized_volatility,
          snapshot, raised, plan,
          program, dry_run, nonce, sent, tx_hashes, actions, execute_calls,
          calls, frames

\* What the encoders read and write: the program that runs, the --dry-run
\* flag (config.dry_run), the transaction count read by execute_plan, the raw
\* transactions sent, the hashes execute_plan returned, the dict built by
\* _encode_actions, and the number of execute_plan calls made.
bot == <<program, dry_run, nonce, sent, tx_hashes, actions, execute_calls>>

\* Concurrent build_plan invocations on the one engine: the arguments, position
\* and outcome of each call, and the local variables of the calls.
threads == <<calls, frames>>

vars == <<pc, engine, predicted_price, current_price, realized_volatility,
          snapshot, raised, plan, bot, threads>>

(***************************************************************************)
(* Program constants                                                       *)
(***************************************************************************)
FEE_BASE == 1000000

(***************************************************************************)
(* Bounds of the model                                                     *)
(***************************************************************************)
MaxConcentration == 4
MaxMult == 3
MaxTarget == 2
MaxPrice == 5
MaxNonce == 1

(***************************************************************************)
(* Optional[int]: None is the empty set, a present value v is {v}.         *)
(***************************************************************************)
None == {}

Some(v) == {v}

IsPresent(o) == o # None

ValueOf(o) == CHOOSE v \in o : TRUE

(***************************************************************************)
(* Arithmetic helpers                                                      *)
(***************************************************************************)
Abs(x) == IF x < 0 THEN -x ELSE x

Max(a, b) == IF a >= b THEN a ELSE b

Min(a, b) == IF a <= b THEN a ELSE b

IntCast_Nearest(n, d) == IF n >= 0 THEN (2 * n + d) \div (2 * d) ELSE -((-2 * n + d) \div (2 * d))

\* int(n / d) for d > 0: Python's int() of a float drops the fraction,
\* that is, it rounds toward zero.
IntCast(n, d) == IF n >= 0 THEN n \div d ELSE -((-n) \div d)

\* int(value * ratio) with ratio = <<num, den>>, den > 0.
ScaleToInt(value, ratio) == IntCast(value * ratio[1], ratio[2])

(***************************************************************************)
(* Input domains                                                           *)
(***************************************************************************)
\* CurveSnapshot: six non-negative integers, spread within [0, FEE_BASE].
Snapshots ==
    [concentration : 0..MaxConcentration,
     mult_x        : {0, MaxMult},
     mult_y        : {0, 1, MaxMult},
     spread        : {0, FEE_BASE},
     target_x      : {0, MaxTarget},
     target_y      : 0..MaxTarget]

\* SignalEngine(...) keyword arguments.  <<1, 1000>>, <<1, 2>>, 500 are the
\* defaults; volatility_threshold 2 is the default 0.02 in hundredths.
Engines ==
    [price_tolerance            : {<<1, 1000>>, <<1, 4>>},
     volatility_threshold       : {2},
     concentration_widen_factor : {<<1, 2>>, <<3, 2>>},
     spread_step                : {0, 500},
     concentration_bounds       : {<<1, 3>>}]

PredictedPrices == 1..MaxPrice

CurrentPrices == {-5, 0, 2, 4}

Volatilities == {1, 2, 3}

NoSnapshot ==
    [concentration |-> 0, mult_x |-> 0, mult_y |-> 0,
     spread |-> 0, target_x |-> 0, target_y |-> 0]

(***************************************************************************)
(* SignalEngine.build_plan, statement by statement                         *)
(***************************************************************************)
\* price_ratio = predicted_price / current_price      (current_price > 0)
price_ratio(predicted, current) == <<predicted, current>>

DeviationExceeds_Inclusive(self, ratio) ==
    Abs(ratio[1] - ratio[2]) * self.price_tolerance[2]
        >= self.price_tolerance[1] * ratio[2]

\* deviation = abs(price_ratio - 1);  deviation > self.price_tolerance
DeviationExceeds(self, ratio) ==
    Abs(ratio[1] - ratio[2]) * self.price_tolerance[2]
        > self.price_tolerance[1] * ratio[2]

plan_mult_x_FromY(snap) == snap.mult_y

\* mult_x = snapshot.mult_x
plan_mult_x(snap) == snap.mult_x

plan_mult_y_NoFloor(self, snap, ratio) ==
    IF DeviationExceeds(self, ratio)
    THEN ScaleToInt(snap.mult_y, ratio)
    ELSE snap.mult_y

\* mult_y = snapshot.mult_y, replaced when the deviation exceeds the tolerance
plan_mult_y(self, snap, ratio) ==
    IF DeviationExceeds(self, ratio)
    THEN Max(1, ScaleToInt(snap.mult_y, ratio))
    ELSE snap.mult_y

HighVolatility_Inclusive(self, volatility) == volatility >= self.volatility_threshold

\* realized_volatility > self.volatility_threshold
HighVolatility(self, volatility) == volatility > self.volatility_threshold

Clamp_NoUpper(self, value) == Max(self.concentration_bounds[1], value)

\* max(lower, min(value, upper))
Clamp(self, value) ==
    Max(self.concentration_bounds[1], Min(value, self.concentration_bounds[2]))

\* concentration: widened and clamped on high volatility, else clamped
plan_concentration(self, snap, volatility) ==
    IF HighVolatility(self, volatility)
    THEN Clamp(self, ScaleToInt(snap.concentration, self.concentration_widen_factor))
    ELSE Clamp(self, snap.concentration)

plan_spread_Uncapped(self, snap, volatility) ==
    IF HighVolatility(self, volatility)
    THEN Some(snap.spread + self.spread_step)
    ELSE None

\* new_spread = min(FEE_BASE, snapshot.spread + self.spread_step), or None
plan_spread(self, snap, volatility) ==
    IF HighVolatility(self, volatility)
    THEN Some(Min(FEE_BASE, snap.spread + self.spread_step))
    ELSE None

\* target_y = snapshot.target_y, rescaled on a deviation when it is positive
new_target_y(self, snap, ratio) ==
    IF DeviationExceeds(self, ratio) /\ snap.target_y > 0
    THEN ScaleToInt(snap.target_y, ratio)
    ELSE snap.target_y

\* target_x = snapshot.target_x
new_target_x(snap) == snap.target_x

\* if target_x != snapshot.target_x or target_y != snapshot.target_y
Rebalance(self, snap, ratio) ==
    new_target_x(snap) # snap.target_x \/ new_target_y(self, snap, ratio) # snap.target_y

plan_target_x_OwnChange(self, snap, ratio) ==
    IF new_target_x(snap) # snap.target_x THEN Some(new_target_x(snap)) ELSE None

\* rebalance_x, rebalance_y: set together, or both left None
plan_target_x(self, snap, ratio) ==
    IF Rebalance(self, snap, ratio) THEN Some(new_target_x(snap)) ELSE None

plan_target_y(self, snap, ratio) ==
    IF Rebalance(self, snap, ratio) THEN Some(new_target_y(self, snap, ratio)) ELSE None

CurveUpdatePlan_Coupled(self, snap, predicted, current, volatility) ==
    LET ratio == price_ratio(predicted, current)
        both  == DeviationExceeds(self, ratio) /\ HighVolatility(self, volatility)
    IN
    [mult_x        |-> plan_mult_x(snap),
     mult_y        |-> IF both THEN plan_mult_y(self, snap, ratio) ELSE snap.mult_y,
     concentration |-> IF both THEN plan_concentration(self, snap, volatility)
                       ELSE Clamp(self, snap.concentration),
     spread        |-> IF both THEN plan_spread(self, snap, volatility) ELSE None,
     target_x      |-> plan_target_x(self, snap, ratio),
     target_y      |-> plan_target_y(self, snap, ratio)]

\* The CurveUpdatePlan returned when current_price > 0.
CurveUpdatePlan(self, snap, predicted, current, volatility) ==
    LET ratio == price_ratio(predicted, current) IN
    [mult_x        |-> plan_mult_x(snap),
     mult_y        |-> plan_mult_y(self, snap, ratio),
     concentration |-> plan_concentration(self, snap, volatility),
     spread        |-> plan_spread(self, snap, volatility),
     target_x      |-> plan_target_x(self, snap, ratio),
     target_y      |-> plan_target_y(self, snap, ratio)]

RejectsPrice_Strict(current) == current < 0

\* if current_price <= 0: raise ValueError
RejectsPrice(current) == current <= 0

\* The outcome of a call: the error raised, or the plan returned.
\* A float division by zero raises ZeroDivisionError; the check above it
\* keeps a zero current price from reaching the division.
build_plan(self, snap, predicted, current, volatility) ==
    IF RejectsPrice(current)
    THEN [raised |-> "ValueError", plan |-> None]
    ELSE IF current = 0
    THEN [raised |-> "ZeroDivisionError", plan |-> None]
    ELSE [raised |-> "none",
          plan   |-> Some(CurveUpdatePlan(self, snap, predicted, current, volatility))]

(***************************************************************************)
(* build_plan as the statements of one call, for calls that overlap        *)
(***************************************************************************)
Threads == {1, 2}

\* A call not yet made.
IdleCall ==
    [pc |-> "idle", snapshot |-> NoSnapshot, predicted_price |-> 0,
     current_price |-> 0, realized_volatility |-> 0,
     result |-> [raised |-> "none", plan |-> None]]

IdleCalls == [t \in Threads |-> IdleCall]

\* The local variables of a call before any is assigned.
NoFrame ==
    [price_ratio |-> <<1, 1>>, mult_x |-> 0, mult_y |-> 0, concentration |-> 0,
     new_spread |-> None, rebalance_x |-> None, rebalance_y |-> None]

NoFrames == [t \in Threads |-> NoFrame]

Frame_OnInstance(t) == 1

\* price_ratio, mult_y, concentration, new_spread, rebalance_x, ... are local
\* variables: each call has a frame of its own.
Frame(t) == t

(***************************************************************************)
(* The update cycle (update_bot.main)                                      *)
(***************************************************************************)
Init ==
    /\ pc = "start"
    /\ engine \in Engines
    /\ predicted_price = 0
    /\ current_price = 0
    /\ realized_volatility = 0
    /\ snapshot = NoSnapshot
    /\ raised = "none"
    /\ plan = None
    /\ program = "build_plan"
    /\ dry_run = FALSE
    /\ nonce = 0
    /\ sent = <<>>
    /\ tx_hashes = <<>>
    /\ actions = <<>>
    /\ execute_calls = 0
    /\ calls = IdleCalls
    /\ frames = NoFrames

\* The predictor's forecast, the last close and the realized volatility.
Predict ==
    /\ pc = "start"
    /\ predicted_price' \in PredictedPrices
    /\ current_price' \in CurrentPrices
    /\ realized_volatility' \in Volatilities
    /\ pc' = "predicted"
    /\ UNCHANGED <<engine, snapshot, raised, plan, bot, threads>>

\* bot.fetch_snapshot()
FetchSnapshot ==
    /\ pc = "predicted"
    /\ snapshot' \in Snapshots
    /\ pc' = "fetched"
    /\ UNCHANGED <<engine, predicted_price, current_price, realized_volatility,
                   raised, plan, bot, threads>>

AfterBuildPlan_Continue(error) == "planned"

\* main catches nothing: an exception out of build_plan ends the program;
\* a returned plan lets it go on.
AfterBuildPlan(error) == IF error = "none" THEN "planned" ELSE "error"

\* plan = engine.build_plan(snapshot, ...)
BuildPlan ==
    /\ pc = "fetched"
    /\ LET r == build_plan(engine, snapshot, predicted_price, current_price,
                           realized_volatility) IN
        /\ raised' = r.raised
        /\ plan' = r.plan
        /\ pc' = AfterBuildPlan(r.raised)
    /\ UNCHANGED <<engine, predicted_price, current_price, realized_volatility,
                   snapshot, bot, threads>>

Next == Predict \/ FetchSnapshot \/ BuildPlan

Spec == Init /\ [][Next]_vars

(***************************************************************************)
(* The encoders: PropAMMBot.execute_plan and demo_unified._encode_actions  *)
(***************************************************************************)
\* SignalEngine() as main and the demo construct it: every default.
DefaultEngine ==
    [price_tolerance            |-> <<1, 1000>>,
     volatility_threshold       |-> 2,
     concentration_widen_factor |-> <<1, 2>>,
     spread_step                |-> 500,
     concentration_bounds       |-> <<1, 3>>]

\* CurveUpdatePlan values a caller can construct, the optional fields set
\* independently of one another.
AnyPlans ==
    [mult_x        : {0, MaxMult},
     mult_y        : {1},
     concentration : {2},
     spread        : {None, Some(500)},
     target_x      : {None, Some(0), Some(MaxTarget)},
     target_y      : {None, Some(3)}]

\* web3.eth.get_transaction_count(account.address)
Nonces == 0..MaxNonce

Instructions_RebalanceFirst(p) ==
    <<[fn |-> "updateCurveParams", args |-> <<p.mult_x, p.mult_y, p.concentration>>]>>
    \o (IF IsPresent(p.target_x) /\ IsPresent(p.target_y)
        THEN <<[fn |-> "rebalanceLiquidity",
                args |-> <<ValueOf(p.target_x), ValueOf(p.target_y)>>]>>
        ELSE <<>>)
    \o (IF IsPresent(p.spread)
        THEN <<[fn |-> "setSpread", args |-> <<ValueOf(p.spread)>>]>>
        ELSE <<>>)

\* The contract calls execute_plan builds, in the order it sends them.
Instructions(p) ==
    <<[fn |-> "updateCurveParams", args |-> <<p.mult_x, p.mult_y, p.concentration>>]>>
    \o (IF IsPresent(p.spread)
        THEN <<[fn |-> "setSpread", args |-> <<ValueOf(p.spread)>>]>>
        ELSE <<>>)
    \o (IF IsPresent(p.target_x) /\ IsPresent(p.target_y)
        THEN <<[fn |-> "rebalanceLiquidity",
                args |-> <<ValueOf(p.target_x), ValueOf(p.target_y)>>]>>
        ELSE <<>>)

NonceOf_SecondIncrementLost(n0, k) == n0 + Min(k, 1)

\* The nonce of the k-th transaction sent (k = 0, 1, 2): nonce is read once
\* and incremented after each send.
NonceOf(n0, k) == n0 + k

\* _send: build the transaction with the nonce, sign it, send it raw.
Transaction(call, n) == [fn |-> call.fn, args |-> call.args, nonce |-> n]

\* tx_hash.hex() of a sent transaction.
TxHash(tx) == [hash_of |-> tx]

execute_plan_IgnoresDryRun(dry, p, n0) ==
    LET built == Instructions(p)
        txs   == [k \in 1..Len(built) |-> Transaction(built[k], NonceOf(n0, k - 1))]
    IN  [sent |-> txs, hashes |-> [k \in 1..Len(txs) |-> TxHash(txs[k])]]

\* PropAMMBot.execute_plan: the transactions sent and the hashes returned.
execute_plan(dry, p, n0) ==
    IF dry
    THEN [sent |-> <<>>, hashes |-> <<>>]
    ELSE LET built == Instructions(p)
             txs   == [k \in 1..Len(built) |-> Transaction(built[k], NonceOf(n0, k - 1))]
         IN  [sent |-> txs, hashes |-> [k \in 1..Len(txs) |-> TxHash(txs[k])]]

\* demo_unified._encode_actions: the dict's entries in insertion order.
EncodeActions(p) ==
    <<[name |-> "updateCurveParams", args |-> <<p.mult_x, p.mult_y, p.concentration>>]>>
    \o (IF IsPresent(p.spread)
        THEN <<[name |-> "setSpread", args |-> <<ValueOf(p.spread)>>]>>
        ELSE <<>>)
    \o (IF IsPresent(p.target_x) /\ IsPresent(p.target_y)
        THEN <<[name |-> "rebalanceLiquidity",
                args |-> <<ValueOf(p.target_x), ValueOf(p.target_y)>>]>>
        ELSE <<>>)

\* The programs of the repository: update_bot.main with or without --dry-run,
\* demo_unified.main, and a caller that hands a plan of its own to an encoder
\* of a bot with either dry_run setting.
BotInit ==
    /\ engine = DefaultEngine
    /\ predicted_price = 0
    /\ current_price = 0
    /\ realized_volatility = 0
    /\ snapshot = NoSnapshot
    /\ raised = "none"
    /\ nonce = 0
    /\ sent = <<>>
    /\ tx_hashes = <<>>
    /\ actions = <<>>
    /\ execute_calls = 0
    /\ calls = IdleCalls
    /\ frames = NoFrames
    /\ \/ program = "update_bot" /\ dry_run \in BOOLEAN /\ pc = "start" /\ plan = None
       \/ program = "demo_unified" /\ dry_run = FALSE /\ pc = "start" /\ plan = None
       \/ /\ program = "encoder"
          /\ dry_run \in BOOLEAN
          /\ pc = "planned"
          /\ plan \in {Some(p) : p \in AnyPlans}

\* main under --dry-run: print the plan and return.
PrintPlan ==
    /\ pc = "planned"
    /\ program = "update_bot"
    /\ dry_run
    /\ pc' = "done"
    /\ UNCHANGED <<engine, predicted_price, current_price, realized_volatility,
                   snapshot, raised, plan, bot, threads>>

\* tx_hashes = bot.execute_plan(plan)
ExecutePlan ==
    /\ pc = "planned"
    /\ \/ program = "update_bot" /\ ~dry_run
       \/ program = "encoder"
    /\ \E p \in plan, n0 \in Nonces :
           LET r == execute_plan(dry_run, p, n0) IN
               /\ nonce' = IF dry_run THEN nonce ELSE n0
               /\ sent' = r.sent
               /\ tx_hashes' = r.hashes
    /\ execute_calls' = execute_calls + 1
    /\ pc' = "done"
    /\ UNCHANGED <<engine, predicted_price, current_price, realized_volatility,
                   snapshot, raised, plan, program, dry_run, actions, threads>>

\* actions = _encode_actions(contract, pair_id, plan)
EncodePlan ==
    /\ pc = "planned"
    /\ program \in {"demo_unified", "encoder"}
    /\ \E p \in plan : actions' = EncodeActions(p)
    /\ pc' = "done"
    /\ UNCHANGED <<engine, predicted_price, current_price, realized_volatility,
                   snapshot, raised, plan, program, dry_run, nonce, sent,
                   tx_hashes, execute_calls, threads>>

BotNext ==
    Predict \/ FetchSnapshot \/ BuildPlan \/ PrintPlan \/ ExecutePlan \/ EncodePlan

BotSpec == BotInit /\ [][BotNext]_vars

(***************************************************************************)
(* Two threads calling build_plan on one engine                            *)
(***************************************************************************)
cycle == <<pc, predicted_price, current_price, realized_volatility, snapshot,
           raised, plan>>

ThreadEngines ==
    {DefaultEngine,
     [price_tolerance            |-> <<1, 4>>,
      volatility_threshold       |-> 2,
      concentration_widen_factor |-> <<3, 2>>,
      spread_step                |-> 0,
      concentration_bounds       |-> <<1, 3>>]}

\* The snapshots and signals the threads pass in.
ThreadSnapshots ==
    {[concentration |-> MaxConcentration, mult_x |-> 0, mult_y |-> MaxMult,
      spread |-> 0, target_x |-> 0, target_y |-> MaxTarget],
     [concentration |-> 2, mult_x |-> MaxMult, mult_y |-> 1,
      spread |-> FEE_BASE, target_x |-> MaxTarget, target_y |-> 1]}

ThreadPredictedPrices == {1, MaxPrice}

ThreadCurrentPrices == {0, 4}

ThreadVolatilities == {1, 3}

ThreadInit ==
    /\ pc = "start"
    /\ engine \in ThreadEngines
    /\ predicted_price = 0
    /\ current_price = 0
    /\ realized_volatility = 0
    /\ snapshot = NoSnapshot
    /\ raised = "none"
    /\ plan = None
    /\ program = "threads"
    /\ dry_run = FALSE
    /\ nonce = 0
    /\ sent = <<>>
    /\ tx_hashes = <<>>
    /\ actions = <<>>
    /\ execute_calls = 0
    /\ calls = IdleCalls
    /\ frames = NoFrames

\* engine.build_plan(snapshot, predicted_price=..., current_price=...,
\* realized_volatility=...) entered by thread t.
Invoke(t) ==
    /\ calls[t].pc = "idle"
    /\ \E snap \in ThreadSnapshots, predicted \in ThreadPredictedPrices,
          current \in ThreadCurrentPrices, volatility \in ThreadVolatilities :
           calls' = [calls EXCEPT ![t] =
                        [pc |-> "guard", snapshot |-> snap,
                         predicted_price |-> predicted, current_price |-> current,
                         realized_volatility |-> volatility,
                         result |-> [raised |-> "none", plan |-> None]]]
    /\ UNCHANGED <<engine, frames, cycle, bot>>

\* if current_price <= 0: raise ValueError
CheckPrice(t) ==
    /\ calls[t].pc = "guard"
    /\ calls' = [calls EXCEPT ![t] =
                    IF RejectsPrice(calls[t].current_price)
                    THEN [@ EXCEPT !.pc = "returned",
                                   !.result = [raised |-> "ValueError", plan |-> None]]
                    ELSE [@ EXCEPT !.pc = "ratio"]]
    /\ UNCHANGED <<engine, frames, cycle, bot>>

\* price_ratio = predicted_price / current_price; deviation = abs(price_ratio - 1)
ComputeRatio(t) ==
    /\ calls[t].pc = "ratio"
    /\ IF calls[t].current_price = 0
       THEN /\ calls' = [calls EXCEPT ![t].pc = "returned",
                                      ![t].result = [raised |-> "ZeroDivisionError",
                                                     plan |-> None]]
            /\ UNCHANGED frames
       ELSE /\ frames' = [frames EXCEPT ![Frame(t)].price_ratio =
                             price_ratio(calls[t].predicted_price, calls[t].current_price)]
            /\ calls' = [calls EXCEPT ![t].pc = "mult"]
    /\ UNCHANGED <<engine, cycle, bot>>

\* mult_x, mult_y and the deviation test on mult_y
ComputeMultipliers(t) ==
    /\ calls[t].pc = "mult"
    /\ frames' = [frames EXCEPT
                     ![Frame(t)].mult_x = plan_mult_x(calls[t].snapshot),
                     ![Frame(t)].mult_y =
                         plan_mult_y(engine, calls[t].snapshot,
                                     frames[Frame(t)].price_ratio)]
    /\ calls' = [calls EXCEPT ![t].pc = "vol"]
    /\ UNCHANGED <<engine, cycle, bot>>

\* the volatility branch: concentration and new_spread
ComputeVolatilityBranch(t) ==
    /\ calls[t].pc = "vol"
    /\ frames' = [frames EXCEPT
                     ![Frame(t)].concentration =
                         plan_concentration(engine, calls[t].snapshot,
                                            calls[t].realized_volatility),
                     ![Frame(t)].new_spread =
                         plan_spread(engine, calls[t].snapshot,
                                     calls[t].realized_volatility)]
    /\ calls' = [calls EXCEPT ![t].pc = "targets"]
    /\ UNCHANGED <<engine, cycle, bot>>

\* target_x, target_y and the rebalance pair
ComputeTargets(t) ==
    /\ calls[t].pc = "targets"
    /\ frames' = [frames EXCEPT
                     ![Frame(t)].rebalance_x =
                         plan_target_x(engine, calls[t].snapshot,
                                       frames[Frame(t)].price_ratio),
                     ![Frame(t)].rebalance_y =
                         plan_target_y(engine, calls[t].snapshot,
                                       frames[Frame(t)].price_ratio)]
    /\ calls' = [calls EXCEPT ![t].pc = "return"]
    /\ UNCHANGED <<engine, cycle, bot>>

\* return CurveUpdatePlan(...)
ReturnPlan(t) ==
    /\ calls[t].pc = "return"
    /\ LET f == frames[Frame(t)] IN
           calls' = [calls EXCEPT
                        ![t].pc = "returned",
                        ![t].result =
                            [raised |-> "none",
                             plan |-> Some([mult_x        |-> f.mult_x,
                                            mult_y        |-> f.mult_y,
                                            concentration |-> f.concentration,
                                            spread        |-> f.new_spread,
                                            target_x      |-> f.rebalance_x,
                                            target_y      |-> f.rebalance_y])]]
    /\ UNCHANGED <<engine, frames, cycle, bot>>

ThreadNext ==
    \E t \in Threads :
        \/ Invoke(t)
        \/ CheckPrice(t)
        \/ ComputeRatio(t)
        \/ ComputeMultipliers(t)
        \/ ComputeVolatilityBranch(t)
        \/ ComputeTargets(t)
        \/ ReturnPlan(t)

ThreadSpec == ThreadInit /\ [][ThreadNext]_vars

(***************************************************************************)
(* Properties                                                              *)
(***************************************************************************)
\* The plan of a cycle whose build_plan call returned.
ThePlan == ValueOf(plan)

Planned == pc = "planned"

\* deviation > price_tolerance, computed from the inputs of the call.
Deviates ==
    Abs(predicted_price - current_price) * engine.price_tolerance[2]
        > engine.price_tolerance[1] * current_price

Lower == engine.concentration_bounds[1]

Upper == engine.concentration_bounds[2]

PlanFields == {"mult_x", "mult_y", "concentration", "spread", "target_x", "target_y"}

\* C1: build_plan raises its input error exactly when current_price <= 0, and
\* then no plan exists; with current_price > 0 it raises nothing and returns a
\* plan whose mult_x, mult_y and concentration are all set.
C1_RejectsExactlyNonPositivePrice ==
    pc \in {"planned", "error"} =>
        /\ (current_price <= 0) <=> (pc = "error")
        /\ pc = "error" => raised = "ValueError" /\ plan = None
        /\ pc = "planned" =>
            /\ raised = "none"
            /\ Cardinality(plan) = 1
            /\ DOMAIN ThePlan = PlanFields
            /\ ThePlan.mult_x \in Int
            /\ ThePlan.mult_y \in Int
            /\ ThePlan.concentration \in Int

C1_Witness == pc = "error" /\ current_price = 0 /\ raised = "ValueError" /\ plan = None

\* C2: in every plan target_x and target_y are both present or both absent.
C2_TargetsBothOrNeither ==
    Planned => (IsPresent(ThePlan.target_x) <=> IsPresent(ThePlan.target_y))

C2_Witness ==
    /\ Planned
    /\ IsPresent(ThePlan.target_x)
    /\ IsPresent(ThePlan.target_y)
    /\ ValueOf(ThePlan.target_y) # snapshot.target_y

\* C3: in both volatility branches the plan's concentration lies inside
\* concentration_bounds, ends included.
C3_ConcentrationInBounds ==
    Planned => Lower <= ThePlan.concentration /\ ThePlan.concentration <= Upper

C3_Witness ==
    /\ Planned
    /\ realized_volatility > engine.volatility_threshold
    /\ (snapshot.concentration * engine.concentration_widen_factor[1])
           \div engine.concentration_widen_factor[2] > Upper
    /\ ThePlan.concentration = Upper

\* The integers nearest to n / d for n >= 0, d > 0: one of them, or both
\* neighbours on a tie, so that every tie-breaking rule of round is allowed.
RoundNearest(n, d) ==
    LET q == n \div d
        r == n % d
    IN  IF 2 * r < d THEN {q}
        ELSE IF 2 * r > d THEN {q + 1}
        ELSE {q, q + 1}

\* C4 as stated: on a deviation above the tolerance the plan's mult_y is
\* max(1, round(snapshot.mult_y * price_ratio)), rounded to the nearest integer;
\* otherwise it is snapshot.mult_y.
C4_MultYRounded ==
    Planned =>
        IF Deviates
        THEN \E rounded \in RoundNearest(snapshot.mult_y * predicted_price, current_price) :
                 ThePlan.mult_y = Max(1, rounded)
        ELSE ThePlan.mult_y = snapshot.mult_y

\* C4 amended: on a deviation strictly above the tolerance the plan's mult_y is
\* max(1, int(snapshot.mult_y * price_ratio)) with the fraction dropped, so it
\* is at least 1; on a deviation at or below the tolerance it is
\* snapshot.mult_y unchanged.
C4_MultYTruncated ==
    Planned =>
        IF Deviates
        THEN /\ ThePlan.mult_y =
                    Max(1, (snapshot.mult_y * predicted_price) \div current_price)
             /\ ThePlan.mult_y >= 1
        ELSE ThePlan.mult_y = snapshot.mult_y

C4_Witness ==
    /\ Planned
    /\ Deviates
    /\ snapshot.mult_y = 1
    /\ 4 * predicted_price = current_price
    /\ ThePlan.mult_y = 1

\* C5: the plan's mult_x is the snapshot's mult_x, whatever the deviation, the
\* volatility and the configuration are.
C5_MultXPassesThrough ==
    Planned => ThePlan.mult_x = snapshot.mult_x

C5_Witness ==
    /\ Planned
    /\ Deviates
    /\ realized_volatility > engine.volatility_threshold
    /\ snapshot.mult_x # snapshot.mult_y
    /\ ThePlan.mult_y # snapshot.mult_y
    /\ ThePlan.mult_x = snapshot.mult_x

\* C6: with realized_volatility above the threshold the plan's concentration is
\* snapshot.concentration * concentration_widen_factor, cut to an integer and
\* clamped into the bounds, and the plan's spread is present and equals
\* min(FEE_BASE, snapshot.spread + spread_step), hence at most FEE_BASE.
C6_HighVolatilityBranch ==
    (Planned /\ realized_volatility > engine.volatility_threshold) =>
        LET widened == (snapshot.concentration * engine.concentration_widen_factor[1])
                           \div engine.concentration_widen_factor[2]
            stepped == snapshot.spread + engine.spread_step
        IN  /\ ThePlan.concentration =
                   (IF widened < Lower THEN Lower
                    ELSE IF widened > Upper THEN Upper ELSE widened)
            /\ ThePlan.spread = {IF stepped > FEE_BASE THEN FEE_BASE ELSE stepped}
            /\ \A v \in ThePlan.spread : v <= FEE_BASE

C6_Witness ==
    /\ Planned
    /\ realized_volatility > engine.volatility_threshold
    /\ snapshot.spread + engine.spread_step > FEE_BASE
    /\ ThePlan.spread = {FEE_BASE}

\* C7: with realized_volatility at or below the threshold the plan carries no
\* spread and its concentration is the snapshot's, clamped and not widened; a
\* snapshot concentration already inside the bounds is returned as it is.
C7_NormalVolatilityBranch ==
    (Planned /\ realized_volatility <= engine.volatility_threshold) =>
        /\ ThePlan.spread = None
        /\ ThePlan.concentration =
               (IF snapshot.concentration < Lower THEN Lower
                ELSE IF snapshot.concentration > Upper THEN Upper
                ELSE snapshot.concentration)
        /\ (Lower <= snapshot.concentration /\ snapshot.concentration <= Upper)
               => ThePlan.concentration = snapshot.concentration

C7_Witness ==
    /\ Planned
    /\ realized_volatility = engine.volatility_threshold
    /\ snapshot.concentration = 2
    /\ engine.concentration_widen_factor = <<1, 2>>
    /\ ThePlan.concentration = 2
    /\ ThePlan.spread = None

\* snapshot.target_y * price_ratio as an integer, for a call that returned.
RescaledTargetY == (snapshot.target_y * predicted_price) \div current_price

\* C8: the rebalance pair is present exactly when the deviation is strictly
\* above the tolerance, snapshot.target_y > 0 and the rescaled target_y differs
\* from snapshot.target_y; a present pair is (snapshot.target_x, rescaled
\* target_y) and so differs from the snapshot's pair; with a deviation at or
\* below the tolerance both targets are absent.
C8_RebalancePair ==
    Planned =>
        LET present == Deviates /\ snapshot.target_y > 0
                           /\ RescaledTargetY # snapshot.target_y
        IN  /\ IsPresent(ThePlan.target_x) <=> present
            /\ IsPresent(ThePlan.target_y) <=> present
            /\ present =>
                /\ ThePlan.target_x = {snapshot.target_x}
                /\ ThePlan.target_y = {RescaledTargetY}
                /\ <<ValueOf(ThePlan.target_x), ValueOf(ThePlan.target_y)>>
                       # <<snapshot.target_x, snapshot.target_y>>
            /\ ~Deviates => ThePlan.target_x = None /\ ThePlan.target_y = None

C8_Witness ==
    /\ Planned
    /\ Deviates
    /\ snapshot.target_y = 2
    /\ snapshot.target_x = MaxTarget
    /\ ThePlan.target_x = {MaxTarget}
    /\ ThePlan.target_y = {3}

\* C9: a spread present in the plan differs from the snapshot's spread.
C9_PresentSpreadChanges ==
    Planned => \A v \in ThePlan.spread : v # snapshot.spread

\* C10: the price trigger and the volatility trigger govern disjoint fields.
\* A call with the same snapshot, engine and volatility but other prices
\* returns the same spread and concentration; a call with the same snapshot,
\* engine and prices but another volatility returns the same mult_x, mult_y,
\* target_x and target_y; a price move above the tolerance under a volatility
\* at or below the threshold leaves the spread absent and the concentration
\* not widened.
C10_TriggersIndependent ==
    Planned =>
        /\ \A p2 \in PredictedPrices, c2 \in CurrentPrices :
               c2 > 0 =>
                   LET other == ValueOf(build_plan(engine, snapshot, p2, c2,
                                                   realized_volatility).plan)
                   IN  /\ other.spread = ThePlan.spread
                       /\ other.concentration = ThePlan.concentration
        /\ \A v2 \in Volatilities :
               LET other == ValueOf(build_plan(engine, snapshot, predicted_price,
                                               current_price, v2).plan)
               IN  /\ other.mult_x = ThePlan.mult_x
                   /\ other.mult_y = ThePlan.mult_y
                   /\ other.target_x = ThePlan.target_x
                   /\ other.target_y = ThePlan.target_y
        /\ (Deviates /\ realized_volatility <= engine.volatility_threshold) =>
               /\ ThePlan.spread = None
               /\ ThePlan.concentration =
                      Max(Lower, Min(snapshot.concentration, Upper))

C10_Witness ==
    /\ Planned
    /\ Deviates
    /\ 2 * predicted_price >= 5 * current_price
    /\ realized_volatility < engine.volatility_threshold
    /\ snapshot.concentration = 2
    /\ ThePlan.mult_y # snapshot.mult_y
    /\ IsPresent(ThePlan.target_y)
    /\ ThePlan.spread = None
    /\ ThePlan.concentration = 2

\* The position of an instruction in the order update, spread, rebalance;
\* 0 for anything else.
Rank(name) ==
    CASE name = "updateCurveParams"  -> 1
      [] name = "setSpread"          -> 2
      [] name = "rebalanceLiquidity" -> 3
      [] OTHER                       -> 0

\* names and args are the instructions emitted for plan p, in order.
EmittedFor(names, args, p) ==
    LET n    == Len(names)
        both == IsPresent(p.target_x) /\ IsPresent(p.target_y)
    IN  /\ n >= 1
        /\ names[1] = "updateCurveParams"
        /\ \A i \in 1..n : Rank(names[i]) # 0
        /\ \A i \in 1..n : \A j \in 1..n : i < j => Rank(names[i]) < Rank(names[j])
        /\ (\E i \in 1..n : names[i] = "setSpread") <=> IsPresent(p.spread)
        /\ (\E i \in 1..n : names[i] = "rebalanceLiquidity") <=> both
        /\ \A i \in 1..n :
               /\ names[i] = "updateCurveParams"
                      => args[i] = <<p.mult_x, p.mult_y, p.concentration>>
               /\ names[i] = "setSpread" => args[i] = <<ValueOf(p.spread)>>
               /\ names[i] = "rebalanceLiquidity"
                      => args[i] = <<ValueOf(p.target_x), ValueOf(p.target_y)>>

\* execute_plan ran with dry_run off.
Executed == pc = "done" /\ execute_calls = 1 /\ ~dry_run

\* _encode_actions ran.
Encoded == pc = "done" /\ execute_calls = 0 /\ program \in {"demo_unified", "encoder"}

\* C11: for any plan, execute_plan (dry_run off) and _encode_actions emit
\* updateCurveParams(mult_x, mult_y, concentration) first, then setSpread
\* exactly when the spread is present, then rebalanceLiquidity exactly when
\* both targets are present; nothing else, nothing twice, in that order.
C11_InstructionSequence ==
    /\ Executed =>
           EmittedFor([k \in 1..Len(sent) |-> sent[k].fn],
                      [k \in 1..Len(sent) |-> sent[k].args], ThePlan)
    /\ Encoded =>
           EmittedFor([k \in 1..Len(actions) |-> actions[k].name],
                      [k \in 1..Len(actions) |-> actions[k].args], ThePlan)

C11_Witness ==
    /\ Executed
    /\ program = "update_bot"
    /\ Len(sent) = 3
    /\ sent[2].fn = "setSpread"
    /\ sent[3].fn = "rebalanceLiquidity"

\* C12: in a cycle of update_bot.main an error raised by build_plan ends the
\* cycle: nothing is sent then or later, no step follows, and whatever was
\* sent was sent after build_plan returned a plan.
C12_NoSendAfterEngineError ==
    /\ raised # "none" =>
           /\ pc = "error"
           /\ sent = <<>>
           /\ tx_hashes = <<>>
           /\ execute_calls = 0
           /\ ~ENABLED BotNext
    /\ (program = "update_bot" /\ sent # <<>>) =>
           /\ raised = "none"
           /\ IsPresent(plan)
           /\ current_price > 0

C12_Witness ==
    /\ program = "update_bot"
    /\ ~dry_run
    /\ pc = "error"
    /\ raised = "ValueError"
    /\ current_price = -5
    /\ sent = <<>>

\* C13: with dry_run on nothing is ever sent: execute_plan returns no hashes
\* and sends nothing whatever the plan holds, and main under --dry-run ends
\* after printing the plan, with no call of execute_plan.
C13_DryRunSendsNothing ==
    dry_run =>
        /\ sent = <<>>
        /\ tx_hashes = <<>>
        /\ program = "update_bot" => execute_calls = 0
        /\ (program = "update_bot" /\ pc = "planned") => ENABLED PrintPlan
        /\ pc = "done" => ~ENABLED BotNext

C13_Witness ==
    /\ dry_run
    /\ program = "encoder"
    /\ pc = "done"
    /\ execute_calls = 1
    /\ IsPresent(ThePlan.spread)
    /\ IsPresent(ThePlan.target_x)
    /\ IsPresent(ThePlan.target_y)
    /\ sent = <<>>
    /\ tx_hashes = <<>>

\* C16: with dry_run off, the k-th transaction execute_plan sends (k = 0, 1, 2)
\* carries the nonce n0 + k, n0 being the transaction count read at the start,
\* whichever optional instructions are present, and the number of hashes
\* returned is 1, plus 1 for a present spread, plus 1 for both targets present.
C16_ConsecutiveNonces ==
    Executed =>
        /\ \A k \in 1..Len(sent) : sent[k].nonce = nonce + (k - 1)
        /\ Len(tx_hashes) = Len(sent)
        /\ Len(tx_hashes) =
               1 + (IF IsPresent(ThePlan.spread) THEN 1 ELSE 0)
                 + (IF IsPresent(ThePlan.target_x) /\ IsPresent(ThePlan.target_y)
                    THEN 1 ELSE 0)

C16_Witness ==
    /\ Executed
    /\ nonce = 1
    /\ Len(sent) = 3
    /\ sent[1].nonce = 1
    /\ sent[2].nonce = 2
    /\ sent[3].nonce = 3
    /\ Len(tx_hashes) = 3

\* q is the exact quotient n / d (n >= 0, d > 0) with its fraction dropped.
IsFloorOf(q, n, d) == q * d <= n /\ n < (q + 1) * d

\* C15: each conversion of a scaled product to an integer in build_plan drops
\* the fraction: the integer behind the plan's mult_y, concentration and
\* target_y is the floor of the exact non-negative product, never the next
\* integer above it.
C15_ConversionsTruncate ==
    Planned =>
        /\ Deviates =>
               IF ThePlan.mult_y > 1
               THEN IsFloorOf(ThePlan.mult_y, snapshot.mult_y * predicted_price,
                              current_price)
               ELSE snapshot.mult_y * predicted_price < 2 * current_price
        /\ realized_volatility > engine.volatility_threshold =>
               LET n == snapshot.concentration * engine.concentration_widen_factor[1]
                   d == engine.concentration_widen_factor[2]
                   c == ThePlan.concentration
               IN  /\ (Lower < c /\ c < Upper) => IsFloorOf(c, n, d)
                   /\ (c = Lower /\ Lower < Upper) => n < (Lower + 1) * d
                   /\ (c = Upper /\ Lower < Upper) => n >= Upper * d
        /\ \A t \in ThePlan.target_y :
               IsFloorOf(t, snapshot.target_y * predicted_price, current_price)

C15_Witness ==
    /\ Planned
    /\ Deviates
    /\ realized_volatility > engine.volatility_threshold
    /\ snapshot.mult_y = 3
    /\ predicted_price = 5
    /\ current_price = 4
    /\ ThePlan.mult_y = 3
    /\ snapshot.concentration = 3
    /\ engine.concentration_widen_factor = <<3, 2>>
    /\ snapshot.target_y = 2
    /\ ThePlan.target_y = None

\* The arguments of thread t's call.
ArgsOf(c) ==
    <<c.snapshot, c.predicted_price, c.current_price, c.realized_volatility>>

\* C14: one engine serves any interleaving of build_plan calls: no step of a
\* call changes the engine's five configuration values or the arguments of a
\* call in progress, and every call that returns delivers what build_plan
\* gives for its own arguments run alone, so equal arguments give equal plans.
C14_EngineReusableConcurrently ==
    [][ /\ engine' = engine
        /\ \A t \in Threads :
               /\ calls[t].pc # "idle" => ArgsOf(calls'[t]) = ArgsOf(calls[t])
               /\ calls'[t].pc = "returned" =>
                      calls'[t].result =
                          build_plan(engine, calls'[t].snapshot,
                                     calls'[t].predicted_price,
                                     calls'[t].current_price,
                                     calls'[t].realized_volatility)
        /\ \A t \in Threads : \A u \in Threads :
               (calls'[t].pc = "returned" /\ calls'[u].pc = "returned"
                    /\ ArgsOf(calls'[t]) = ArgsOf(calls'[u]))
                   => calls'[t].result = calls'[u].result ]_vars

C14_Witness ==
    /\ calls[1].pc = "returned"
    /\ calls[2].pc = "return"
    /\ calls[1].snapshot # calls[2].snapshot
    /\ calls[1].predicted_price # calls[2].predicted_price
    /\ calls[1].realized_volatility # calls[2].realized_volatility
    /\ IsPresent(calls[1].result.plan)
    /\ frames[1] # frames[2]
    /\ frames[2] # NoFrame

====
